---- MODULE Spec2Model ----
(***************************************************************************)
(* A model of the reporting and document-maintenance scripts under         *)
(* src/scripts: the accessibility-report builder, the ADO CSV merger, the  *)
(* PRD updater (document augmenter), the PRD cleanup script and the        *)
(* per-file loops of the document scripts.                                 *)
(*                                                                         *)
(* Text is a sequence of one-character strings, so that strip(), lower(),  *)
(* int(), float() and the regular expressions of the scripts are computed  *)
(* on characters.  A story-point number is kept in tenths (2.5 is 25).     *)
(***************************************************************************)
EXTENDS Integers, Sequences, FiniteSets, TLC

VARIABLES
    \* derive_priority called on its own
    title, raw_priority, derived,
    \* build_em_accessibility_reports.main
    lines, ln, rows, reportPc, by_category, master, pivot_rows,
    \* the script embedded in merge_ado_csv.py
    titles_rows, attrs_rows, attrs_is_csv, titles_map, attrs_map, out_rows, mi, mergePc,
    \* update_prds.process_docx, run twice on one document
    body, docName, updPc, after_first,
    \* cleanup_prds.remove_appendix_and_images
    doc, orig, paras, ci, cleanPc,
    \* the per-file loops of cleanup_prds, update_prds and embed_prototypes
    script, files, fi, handled, walkPc,
    \* the page selection of embed_prototypes and embed_images_and_generate_docx
    pdf_pages, prd_name, matcher, selected, matchPc,
    \* the scrub loop of cleanup_prds.process_docx
    scrub_in, scrub_paras, si, scrubPc

priorityVars == <<title, raw_priority, derived>>
reportVars == <<lines, ln, rows, reportPc, by_category, master, pivot_rows>>
mergeVars ==
    <<titles_rows, attrs_rows, attrs_is_csv, titles_map, attrs_map, out_rows, mi, mergePc>>
updateVars == <<body, docName, updPc, after_first>>
cleanupVars == <<doc, orig, paras, ci, cleanPc>>
walkVars == <<script, files, fi, handled, walkPc>>
matchVars == <<pdf_pages, prd_name, matcher, selected, matchPc>>
scrubVars == <<scrub_in, scrub_paras, si, scrubPc>>
vars ==
    <<priorityVars, reportVars, mergeVars, updateVars, cleanupVars, walkVars, matchVars,
      scrubVars>>

\* What each script leaves alone: the state of the others
notPriority ==
    <<reportVars, mergeVars, updateVars, cleanupVars, walkVars, matchVars, scrubVars>>
notReport ==
    <<priorityVars, mergeVars, updateVars, cleanupVars, walkVars, matchVars, scrubVars>>
notMerge ==
    <<priorityVars, reportVars, updateVars, cleanupVars, walkVars, matchVars, scrubVars>>
notUpdate ==
    <<priorityVars, reportVars, mergeVars, cleanupVars, walkVars, matchVars, scrubVars>>
notCleanup ==
    <<priorityVars, reportVars, mergeVars, updateVars, walkVars, matchVars, scrubVars>>
notWalk ==
    <<priorityVars, reportVars, mergeVars, updateVars, cleanupVars, matchVars, scrubVars>>
notMatch ==
    <<priorityVars, reportVars, mergeVars, updateVars, cleanupVars, walkVars, scrubVars>>
notScrub ==
    <<priorityVars, reportVars, mergeVars, updateVars, cleanupVars, walkVars, matchVars>>

----------------------------------------------------------------------------
(* Bounds of the model *)

MaxTitleParts == 2
MaxLines == 2
MaxMergeRows == 2
MaxParas == 4
MaxCleanParas == 4
MaxFiles == 3
MaxPages == 3
MaxScrubParts == 3
MaxScrubParas == 2

----------------------------------------------------------------------------
(* Characters and Python's str / int / float helpers *)

Digits == {"0", "1", "2", "3", "4", "5", "6", "7", "8", "9"}

DigitVal(c) ==
    CASE c = "0" -> 0 [] c = "1" -> 1 [] c = "2" -> 2 [] c = "3" -> 3
      [] c = "4" -> 4 [] c = "5" -> 5 [] c = "6" -> 6 [] c = "7" -> 7
      [] c = "8" -> 8 [] c = "9" -> 9 [] OTHER -> 0

UpperAlpha == <<"A","B","C","D","E","F","G","H","I","J","K","L","M",
                "N","O","P","Q","R","S","T","U","V","W","X","Y","Z">>
LowerAlpha == <<"a","b","c","d","e","f","g","h","i","j","k","l","m",
                "n","o","p","q","r","s","t","u","v","w","x","y","z">>

LowerChar(c) ==
    IF \E k \in 1..26 : UpperAlpha[k] = c
    THEN LowerAlpha[CHOOSE k \in 1..26 : UpperAlpha[k] = c]
    ELSE c

\* str.lower()
lower(s) == [k \in 1..Len(s) |-> LowerChar(s[k])]

IsSpace(c) == c \in {" ", "\t"}

RECURSIVE lstrip(_)
lstrip(s) == IF s # <<>> /\ IsSpace(Head(s)) THEN lstrip(Tail(s)) ELSE s

RECURSIVE rstrip(_)
rstrip(s) ==
    IF s # <<>> /\ IsSpace(s[Len(s)]) THEN rstrip(SubSeq(s, 1, Len(s) - 1)) ELSE s

\* str.strip()
strip(s) == rstrip(lstrip(s))

AllDigits(s) == \A k \in 1..Len(s) : s[k] \in Digits

RECURSIVE DigitsToNat(_)
DigitsToNat(s) ==
    IF s = <<>> THEN 0
    ELSE 10 * DigitsToNat(SubSeq(s, 1, Len(s) - 1)) + DigitVal(s[Len(s)])

HasSign(s) == s # <<>> /\ Head(s) \in {"+", "-"}
Unsigned(s) == IF HasSign(s) THEN Tail(s) ELSE s
SignOf(s) == IF s # <<>> /\ Head(s) = "-" THEN -1 ELSE 1

\* int(str): surrounding whitespace, an optional sign, then decimal digits
\* only; anything else (empty, "nan", "2.0", text) raises ValueError.
IntParses(s) == Unsigned(strip(s)) # <<>> /\ AllDigits(Unsigned(strip(s)))
IntValue(s) == SignOf(strip(s)) * DigitsToNat(Unsigned(strip(s)))

\* The position of the first "." of s, or 0.
DotPos(s) ==
    IF \E k \in 1..Len(s) : s[k] = "."
    THEN CHOOSE k \in 1..Len(s) : s[k] = "." /\ \A m \in 1..(k - 1) : s[m] # "."
    ELSE 0

IntPart(s) == IF DotPos(s) = 0 THEN s ELSE SubSeq(s, 1, DotPos(s) - 1)
FracPart(s) == IF DotPos(s) = 0 THEN <<>> ELSE SubSeq(s, DotPos(s) + 1, Len(s))

\* float(str) accepts the not-a-number and infinity literals, signed or not
IsNanLiteral(s) == lower(Unsigned(strip(s))) = <<"n", "a", "n">>
IsInfLiteral(s) == lower(Unsigned(strip(s))) = <<"i", "n", "f">>

\* float(str) on a plain decimal: digits with at most one ".", at least one
\* digit (exponents are not drawn by the model).
IsDecimal(s) ==
    LET u == Unsigned(strip(s)) IN
    /\ AllDigits(IntPart(u))
    /\ AllDigits(FracPart(u))
    /\ Len(IntPart(u)) + Len(FracPart(u)) > 0

FloatParses(s) == IsDecimal(s) \/ IsNanLiteral(s) \/ IsInfLiteral(s)

\* The value of a plain decimal in tenths (the model draws at most one
\* significant fractional digit).
FloatTenths(s) ==
    LET u == Unsigned(strip(s))
        f == FracPart(u)
    IN SignOf(strip(s)) *
         (10 * DigitsToNat(IntPart(u)) + (IF f = <<>> THEN 0 ELSE DigitVal(f[1])))

----------------------------------------------------------------------------
(* build_em_accessibility_reports.py: derive_priority, priority_group *)

\* priority_from_title_re = \[(P[1-4])\] matches at position k
TagAt(t, k) ==
    /\ k + 3 <= Len(t)
    /\ t[k] = "["
    /\ t[k + 1] = "P"
    /\ t[k + 2] \in {"1", "2", "3", "4"}
    /\ t[k + 3] = "]"

\* re.search: the leftmost match, 0 when there is none
priority_from_title_re(t) ==
    IF \E k \in 1..Len(t) : TagAt(t, k)
    THEN CHOOSE k \in 1..Len(t) : TagAt(t, k) /\ \A m \in 1..(k - 1) : ~TagAt(t, m)
    ELSE 0

derive_priority_rawfirst(t, raw) ==
    IF IntParses(raw) /\ IntValue(raw) \in {1, 2, 3, 4} THEN IntValue(raw)
    ELSE IF priority_from_title_re(t) # 0
         THEN DigitVal(t[priority_from_title_re(t) + 2])
         ELSE 3

derive_priority_norange(t, raw) ==
    IF priority_from_title_re(t) # 0
    THEN DigitVal(t[priority_from_title_re(t) + 2])
    ELSE IF IntParses(raw) /\ IntValue(raw) >= 1 THEN IntValue(raw) ELSE 3

derive_priority(t, raw) ==
    LET m == priority_from_title_re(t) IN
    IF m # 0 THEN DigitVal(t[m + 2])
    ELSE IF IntParses(raw) /\ IntValue(raw) \in {1, 2, 3, 4} THEN IntValue(raw)
    ELSE 3

priority_group_p1(p) == IF p = 1 THEN "P1/P2" ELSE "P3/P4"

priority_group(p) == IF p \in {1, 2} THEN "P1/P2" ELSE "P3/P4"

----------------------------------------------------------------------------
(* build_em_accessibility_reports.py: the input lines *)

\* One line of the export is a list of "Label:value" segments joined by ", ".
Seg(l, v) == [label |-> l, value |-> v]

\* The text "Label:value" of a segment (the label is kept as one token)
SegText(sg) == <<sg.label, ":">> \o sg.value

\* The text between segment i's colon and the ", " before segment j
RECURSIVE Between(_, _, _)
Between(line, i, j) ==
    IF j = i + 1 THEN line[i].value
    ELSE Between(line, i, j - 1) \o <<",", " ">> \o SegText(line[j - 1])

\* <label>:(.*?),\s+<next>: -- the leftmost "label:" that some "next:" follows;
\* the lazy group stops at the nearest one.  0 when there is no match.
LazyStart(line, l, nxt) ==
    LET ok(i) == line[i].label = l /\ \E j \in (i + 1)..Len(line) : line[j].label = nxt
    IN IF \E i \in 1..Len(line) : ok(i)
       THEN CHOOSE i \in 1..Len(line) : ok(i) /\ \A m \in 1..(i - 1) : ~ok(m)
       ELSE 0

LazyEnd(line, i, nxt) ==
    CHOOSE j \in (i + 1)..Len(line) :
        line[j].label = nxt /\ \A m \in (i + 1)..(j - 1) : line[m].label # nxt

LazyCapture(line, l, nxt) ==
    Between(line, LazyStart(line, l, nxt), LazyEnd(line, LazyStart(line, l, nxt), nxt))

\* <label>:([^,]*),\s+<next>: -- the group cannot cross a comma, so "next:"
\* must be the very next segment.  0 when there is no match.
AdjacentStart(line, l, nxt) ==
    LET ok(i) == line[i].label = l /\ i < Len(line) /\ line[i + 1].label = nxt
    IN IF \E i \in 1..Len(line) : ok(i)
       THEN CHOOSE i \in 1..Len(line) : ok(i) /\ \A m \in 1..(i - 1) : ~ok(m)
       ELSE 0

\* The leading digits of a text
RECURSIVE LeadingDigits(_)
LeadingDigits(s) ==
    IF s # <<>> /\ Head(s) \in Digits THEN <<Head(s)>> \o LeadingDigits(Tail(s)) ELSE <<>>

\* ID:(\d+) -- the leftmost ID segment whose value starts with a digit
IdStart(line) ==
    LET ok(i) == line[i].label = "ID" /\ LeadingDigits(line[i].value) # <<>>
    IN IF \E i \in 1..Len(line) : ok(i)
       THEN CHOOSE i \in 1..Len(line) : ok(i) /\ \A m \in 1..(i - 1) : ~ok(m)
       ELSE 0

\* Parent:(\d+)(?:\s*$) -- digits only, up to the end of the line
ParentStart(line) ==
    IF /\ line # <<>>
       /\ line[Len(line)].label = "Parent"
       /\ line[Len(line)].value # <<>>
       /\ AllDigits(line[Len(line)].value)
    THEN Len(line) ELSE 0

NAN == <<"n", "a", "n">>

\* The Story Points branch of parse_line: None for an empty or "nan" field,
\* float(sp_raw) otherwise.
StoryPointsField(sp_raw) ==
    IF sp_raw = <<>> \/ lower(sp_raw) = NAN THEN [kind |-> "None", tenths |-> 0]
    ELSE IF IsNanLiteral(sp_raw) THEN [kind |-> "nan", tenths |-> 0]
    ELSE IF IsInfLiteral(sp_raw) THEN [kind |-> "inf", tenths |-> 0]
    ELSE [kind |-> "num", tenths |-> FloatTenths(sp_raw)]

\* The fields a line must yield besides ID, as parse_line looks for them
FieldsFound(line) ==
    /\ LazyStart(line, "Title", "Work Item Type") # 0
    /\ LazyStart(line, "Work Item Type", "State") # 0
    /\ LazyStart(line, "State", "Created By") # 0
    /\ LazyStart(line, "Created By", "Priority") # 0
    /\ AdjacentStart(line, "Priority", "Story Points") # 0
    /\ AdjacentStart(line, "Story Points", "Parent") # 0
    /\ ParentStart(line) # 0

StoryPointsRaw(line) == strip(line[AdjacentStart(line, "Story Points", "Parent")].value)

StoryPointsConvertible(line) ==
    \/ StoryPointsRaw(line) = <<>>
    \/ lower(StoryPointsRaw(line)) = NAN
    \/ FloatParses(StoryPointsRaw(line))

\* parse_line: "None" (no ID), "ValueError" (raised), or "ok" with the fields
parse_line(line) ==
    IF IdStart(line) = 0 THEN [status |-> "None"]
    ELSE IF ~FieldsFound(line) \/ ~StoryPointsConvertible(line)
    THEN [status |-> "ValueError"]
    ELSE LET pr_raw == strip(line[AdjacentStart(line, "Priority", "Story Points")].value)
         IN [status |-> "ok",
             ID |-> DigitsToNat(LeadingDigits(line[IdStart(line)].value)),
             Title |-> strip(LazyCapture(line, "Title", "Work Item Type")),
             WorkItemType |-> strip(LazyCapture(line, "Work Item Type", "State")),
             State |-> strip(LazyCapture(line, "State", "Created By")),
             CreatedBy |-> strip(LazyCapture(line, "Created By", "Priority")),
             Priority |-> IF pr_raw # <<>> THEN pr_raw ELSE NAN,
             StoryPoints |-> StoryPointsField(StoryPointsRaw(line)),
             Parent |-> DigitsToNat(line[ParentStart(line)].value)]

\* The category names, in the order of the CATEGORIES dict
CategoryNames == <<"Client Communications", "Workpapers (incl. Workpaper Properties)">>

CATEGORIES(cat) ==
    IF cat = "Client Communications" THEN {3136758, 3107305}
    ELSE IF cat = "Workpapers (incl. Workpaper Properties)" THEN {3680361}
    ELSE {}

categorize_default(parent_id) ==
    IF parent_id \in CATEGORIES(CategoryNames[2]) THEN CategoryNames[2] ELSE CategoryNames[1]

\* categorize: the first category whose id set holds the parent, or "None"
categorize(parent_id) ==
    IF \E k \in 1..Len(CategoryNames) : parent_id \in CATEGORIES(CategoryNames[k])
    THEN CategoryNames[CHOOSE k \in 1..Len(CategoryNames) :
            /\ parent_id \in CATEGORIES(CategoryNames[k])
            /\ \A m \in 1..(k - 1) : parent_id \notin CATEGORIES(CategoryNames[m])]
    ELSE "None"

----------------------------------------------------------------------------
(* The inputs the model draws *)

\* Fragments a title is put together from (a tag may straddle two fragments)
TitleFragments ==
    { <<"[", "P", "1", "]">>, <<"[", "P", "2", "]">>, <<"[", "P", "4", "]">>,
      <<"[", "P", "5", "]">>, <<"[", "p", "1", "]">>, <<"P", "3">>,
      <<"F", "i", "x", " ">>, <<"[", "P">>, <<"3", "]">> }

RECURSIVE TitlesOf(_)
TitlesOf(n) ==
    IF n = 0 THEN {<<>>}
    ELSE TitlesOf(n - 1) \cup {t \o f : t \in TitlesOf(n - 1), f \in TitleFragments}

\* Raw values of the Priority field
RawPriorities ==
    { <<>>, NAN, <<"a", "b", "c">>, <<"0">>, <<"1">>, <<"2">>, <<"3">>, <<"4">>,
      <<"5">>, <<"2", ".", "0">>, <<" ", "2">>, <<"-", "1">>, <<"0", "2">>,
      <<"+", "4">>, <<"1", "2">>, <<"H", "i", "g", "h">> }

T_Bug == <<"B", "u", "g">>
T_Active == <<"A", "c", "t", "i", "v", "e">>
T_A == <<"A">>
T_FixP1 == <<"F", "i", "x", " ", "[", "P", "1", "]", " ", "a", "l", "t">>
T_P4 == <<"[", "P", "4", "]", " ", "y">>
T_Plain == <<"x">>
P_CC1 == <<"3", "1", "3", "6", "7", "5", "8">>
P_CC2 == <<"3", "1", "0", "7", "3", "0", "5">>
P_WP == <<"3", "6", "8", "0", "3", "6", "1">>
P_Other == <<"9", "9">>

\* A line with every field, in the fixed order
FullLine(id, t, prio, sp, parent) ==
    << Seg("ID", id), Seg("Title", t), Seg("Work Item Type", T_Bug),
       Seg("State", T_Active), Seg("Created By", T_A), Seg("Priority", prio),
       Seg("Story Points", sp), Seg("Parent", parent) >>

\* line without its k-th segment
DropSeg(line, k) == SubSeq(line, 1, k - 1) \o SubSeq(line, k + 1, Len(line))

\* line with segments k and k+1 exchanged
SwapSeg(line, k) ==
    [i \in 1..Len(line) |-> IF i = k THEN line[k + 1] ELSE IF i = k + 1 THEN line[k] ELSE line[i]]

GoodLines ==
    { FullLine(<<"1", "0", "0">>, T_FixP1, <<"3">>, <<"2">>, P_CC1),
      FullLine(<<"7">>, T_Plain, <<"2">>, <<"1", ".", "5">>, P_WP),
      FullLine(<<"5">>, T_Plain, <<" ">>, <<>>, P_CC2),
      FullLine(<<"6">>, T_P4, <<"1">>, <<"3", ".", "0">>, P_WP),
      FullLine(<<"8">>, T_Plain, <<"2", ".", "0">>, NAN, P_CC1),
      FullLine(<<"9">>, T_Plain, <<"4">>, <<"4">>, P_Other) }

BadLines ==
    { \* a field is missing
      DropSeg(FullLine(<<"2">>, T_Plain, <<"1">>, <<"1">>, P_CC1), 4),
      \* Priority and Story Points are exchanged
      SwapSeg(FullLine(<<"3">>, T_Plain, <<"1">>, <<"1">>, P_CC1), 6),
      \* the ID is not a number
      FullLine(<<"x">>, T_Plain, <<"1">>, <<"1">>, P_CC1),
      \* Story Points is not a number
      FullLine(<<"4">>, T_Plain, <<"1">>, <<"a", "b", "c">>, P_CC1),
      \* Story Points is negative
      FullLine(<<"1", "1">>, T_Plain, <<"1">>, <<"-", "1">>, P_WP),
      \* a line that does not start with ID:
      <<Seg("Title", T_Plain), Seg("ID", <<"1", "2">>)>> }

LineSamples == GoodLines \cup BadLines

RECURSIVE SeqsUpTo(_, _)
SeqsUpTo(S, n) ==
    IF n = 0 THEN {<<>>}
    ELSE SeqsUpTo(S, n - 1) \cup {Append(q, x) : q \in SeqsUpTo(S, n - 1), x \in S}

----------------------------------------------------------------------------
(* derive_priority applied to drawn inputs *)

PriorityIdle == title = <<>> /\ raw_priority = <<>> /\ derived = 0

PriorityInit ==
    /\ title \in TitlesOf(MaxTitleParts)
    /\ raw_priority \in RawPriorities
    /\ derived = 0

CallDerivePriority ==
    /\ derived = 0
    /\ derived' = derive_priority(title, raw_priority)
    /\ UNCHANGED <<title, raw_priority>>
    /\ UNCHANGED notPriority

----------------------------------------------------------------------------
(* build_em_accessibility_reports.py: main *)

ReportIdle ==
    /\ lines = <<>> /\ ln = 1 /\ rows = <<>> /\ reportPc = "idle"
    /\ by_category = <<>> /\ master = <<>> /\ pivot_rows = <<>>

ReportInit ==
    /\ lines \in SeqsUpTo(LineSamples, MaxLines)
    /\ ln = 1
    /\ rows = <<>>
    /\ reportPc = "reading"
    /\ by_category = <<>>
    /\ master = <<>>
    /\ pivot_rows = <<>>

\* raw.startswith('ID:')
StartsWithID(line) == line # <<>> /\ line[1].label = "ID"

\* rec.get('Story Points') or 0.0
StoryPointsOrZero(sp) ==
    IF sp.kind = "None" \/ (sp.kind = "num" /\ sp.tenths = 0)
    THEN [kind |-> "num", tenths |-> 0]
    ELSE sp

\* The row main builds from a parsed, categorized record
OutRow(rec) ==
    LET p == derive_priority(rec.Title, rec.Priority) IN
    [Category |-> categorize(rec.Parent),
     WorkItemID |-> rec.ID,
     Title |-> rec.Title,
     Type |-> rec.WorkItemType,
     Priority |-> p,
     PriorityGroup |-> priority_group(p),
     StoryPoints |-> StoryPointsOrZero(rec.StoryPoints),
     CreatedBy |-> rec.CreatedBy,
     State |-> rec.State]

\* One pass of the read loop over a line that yields no row
SkipLine ==
    /\ reportPc = "reading"
    /\ ln <= Len(lines)
    /\ \/ ~StartsWithID(lines[ln])
       \/ /\ StartsWithID(lines[ln])
          /\ parse_line(lines[ln]).status = "None"
       \/ /\ StartsWithID(lines[ln])
          /\ parse_line(lines[ln]).status = "ok"
          /\ categorize(parse_line(lines[ln]).Parent) = "None"
    /\ ln' = ln + 1
    /\ UNCHANGED <<lines, rows, reportPc, by_category, master, pivot_rows>>
    /\ UNCHANGED notReport

\* parse_line raises ValueError; main does not catch it, the script ends
\* with a traceback before any output is written
ParseRaises ==
    /\ reportPc = "reading"
    /\ ln <= Len(lines)
    /\ StartsWithID(lines[ln])
    /\ parse_line(lines[ln]).status = "ValueError"
    /\ reportPc' = "crashed"
    /\ UNCHANGED <<lines, ln, rows, by_category, master, pivot_rows>>
    /\ UNCHANGED notReport

AppendRow ==
    /\ reportPc = "reading"
    /\ ln <= Len(lines)
    /\ StartsWithID(lines[ln])
    /\ parse_line(lines[ln]).status = "ok"
    /\ categorize(parse_line(lines[ln]).Parent) # "None"
    /\ rows' = Append(rows, OutRow(parse_line(lines[ln])))
    /\ ln' = ln + 1
    /\ UNCHANGED <<lines, reportPc, by_category, master, pivot_rows>>
    /\ UNCHANGED notReport

\* Tuples of integers compared as Python compares tuples
RECURSIVE TupleLE(_, _)
TupleLE(a, b) ==
    IF a = <<>> THEN TRUE
    ELSE IF Head(a) # Head(b) THEN Head(a) < Head(b)
    ELSE TupleLE(Tail(a), Tail(b))

\* list.sort / sorted with a key: ascending and stable, so an item goes
\* after every item with a smaller key and every earlier item with its key
SortedByKey(s, K(_)) ==
    LET before(j, i) ==
            \/ (K(s[j]) # K(s[i]) /\ TupleLE(K(s[j]), K(s[i])))
            \/ (K(s[j]) = K(s[i]) /\ j < i)
        pos(i) == 1 + Cardinality({j \in 1..Len(s) : before(j, i)})
    IN [k \in 1..Len(s) |-> s[CHOOSE i \in 1..Len(s) : pos(i) = k]]

\* The items of a list that satisfy a test, in order
SelectRows(s, Test(_)) == SelectSeq(s, Test)

RECURSIVE SumSeq(_)
SumSeq(s) == IF s = <<>> THEN 0 ELSE Head(s) + SumSeq(Tail(s))

\* sum(r['Story Points'] or 0 for r in items), in tenths
SumSP(items) == SumSeq([k \in 1..Len(items) |-> items[k].StoryPoints.tenths])

SumField(s, F(_)) == SumSeq([k \in 1..Len(s) |-> F(s[k])])

sort_key_id_only(r) == <<0, r.WorkItemID>>

\* sort_key of main: P1/P2 first, then P3/P4, then by ID
sort_key(r) == <<IF r.Priority \in {1, 2} THEN 0 ELSE 1, r.WorkItemID>>

\* The category names compare as strings in the order of CategoryNames
CategoryRank(cat) == CHOOSE k \in 1..Len(CategoryNames) : CategoryNames[k] = cat

master_key(r) ==
    <<CategoryRank(r.Category), IF r.Priority \in {1, 2} THEN 0 ELSE 1, r.WorkItemID>>

GroupByCategory_all(rs) ==
    [cat \in {rs[k].Category : k \in 1..Len(rs)} |-> SortedByKey(rs, sort_key)]

\* by_category after the grouping loop and items.sort(key=sort_key)
GroupByCategory(rs) ==
    [cat \in {rs[k].Category : k \in 1..Len(rs)} |->
        LET InCat(r) == r.Category = cat
        IN SortedByKey(SelectRows(rs, InCat), sort_key)]

\* by_category.get(cat, [])
ItemsOf(byc, cat) == IF cat \in DOMAIN byc THEN byc[cat] ELSE <<>>

IsP12_only_p1(r) == r.Priority = 1

\* r['Priority'] in (1,2), the test of the P1/P2 subtotal
IsP12(r) == r.Priority \in {1, 2}

\* One row of the pivot summary
PivotRow(byc, cat) ==
    LET items == ItemsOf(byc, cat)
        total_sp == SumSP(items)
        p12_sp == SumSP(SelectRows(items, IsP12))
    IN [Category |-> cat, ItemCount |-> Len(items), TotalSP |-> total_sp,
        P12SP |-> p12_sp, P34SP |-> total_sp - p12_sp]

\* The grand-total row, summed over the category rows
GrandTotal(prs) ==
    LET count(r) == r.ItemCount
        total(r) == r.TotalSP
        p12(r) == r.P12SP
        p34(r) == r.P34SP
    IN [Category |-> "Grand Total", ItemCount |-> SumField(prs, count),
        TotalSP |-> SumField(prs, total), P12SP |-> SumField(prs, p12),
        P34SP |-> SumField(prs, p34)]

PivotRows(byc) ==
    LET prs == [k \in 1..Len(CategoryNames) |-> PivotRow(byc, CategoryNames[k])]
    IN Append(prs, GrandTotal(prs))

\* After the read loop: the per-category files, master.csv, pivot-summary.csv
WriteReports ==
    /\ reportPc = "reading"
    /\ ln > Len(lines)
    /\ by_category' = GroupByCategory(rows)
    /\ master' = SortedByKey(rows, master_key)
    /\ pivot_rows' = PivotRows(GroupByCategory(rows))
    /\ reportPc' = "done"
    /\ UNCHANGED <<lines, ln, rows>>
    /\ UNCHANGED notReport

----------------------------------------------------------------------------
(* merge_ado_csv.py: the embedded merge script *)

\* A table row is a dict from column names to text.  dict.get of a column
\* the row lacks is None.
None == <<"None">>

Get(row, col) == IF col \in DOMAIN row THEN row[col] ELSE None

OUT_HEADERS ==
    <<"ID", "Title", "Work Item Type", "System.AreaPath", "System.IterationPath",
      "Microsoft.VSTS.Common.Priority", "Microsoft.VSTS.Scheduling.StoryPoints">>

\* clean: None and "nan" (any case, trimmed) become "", other text is trimmed
clean(val) ==
    IF val = None THEN <<>>
    ELSE IF lower(strip(val)) = NAN THEN <<>> ELSE strip(val)

RECURSIVE StripLeadingZeros(_)
StripLeadingZeros(s) ==
    IF Len(s) > 1 /\ Head(s) = "0" THEN StripLeadingZeros(Tail(s)) ELSE s

RECURSIVE StripTrailingZeros(_)
StripTrailingZeros(s) ==
    IF s # <<>> /\ s[Len(s)] = "0" THEN StripTrailingZeros(SubSeq(s, 1, Len(s) - 1)) ELSE s

\* str(int(f)) if f.is_integer() else str(f).rstrip("0").rstrip("."), for a
\* plain decimal s
DecimalText(s) ==
    LET u == Unsigned(s)
        ip == StripLeadingZeros(IF IntPart(u) = <<>> THEN <<"0">> ELSE IntPart(u))
        fp == StripTrailingZeros(FracPart(u))
        zero == ip = <<"0">> /\ fp = <<>>
        sign == IF SignOf(s) = -1 /\ ~zero THEN <<"-">> ELSE <<>>
    IN IF fp = <<>> THEN sign \o ip ELSE sign \o ip \o <<".">> \o fp

\* norm_sp: "" for an empty or unreadable value, else the number's text
norm_sp(val) ==
    LET s == clean(val) IN
    IF s = <<>> THEN <<>>
    ELSE IF IsNanLiteral(s) THEN NAN
    ELSE IF IsInfLiteral(s) THEN (IF SignOf(s) = -1 THEN <<"-">> ELSE <<>>) \o <<"i", "n", "f">>
    ELSE IF IsDecimal(s) THEN DecimalText(s)
    ELSE <<>>

\* A dict keeps insertion order; assigning to a key it holds replaces the
\* value in place.
DictHas(d, key) == \E k \in 1..Len(d) : d[k].key = key
DictGet(d, key) == d[CHOOSE k \in 1..Len(d) : d[k].key = key].val

DictPut_append(d, key, val) == Append(d, [key |-> key, val |-> val])

DictPut(d, key, val) ==
    IF DictHas(d, key)
    THEN [k \in 1..Len(d) |-> IF d[k].key = key THEN [key |-> key, val |-> val] ELSE d[k]]
    ELSE Append(d, [key |-> key, val |-> val])

\* parse_titles: rows without an ID are left out (both input styles build
\* the same record from a row)
RECURSIVE parse_titles(_)
parse_titles(trows) ==
    IF trows = <<>> THEN <<>>
    ELSE LET row == trows[Len(trows)]
             result == parse_titles(SubSeq(trows, 1, Len(trows) - 1))
             id_ == clean(Get(row, "ID"))
         IN IF id_ = <<>> THEN result
            ELSE DictPut(result, id_,
                    ("ID" :> id_) @@ ("Title" :> clean(Get(row, "Title")))
                    @@ ("Work Item Type" :> clean(Get(row, "Work Item Type"))))

\* getv: the first of the names that is a column of the row
RECURSIVE getv(_, _)
getv(row, names) ==
    IF names = <<>> THEN None
    ELSE IF Head(names) \in DOMAIN row THEN row[Head(names)]
    ELSE getv(row, Tail(names))

\* The column names parse_attrs reads a field from: aliases only for a
\* proper CSV
AttrNames(is_csv, col) ==
    IF ~is_csv THEN <<col>>
    ELSE IF col = "ID" THEN <<"ID", "Id">>
    ELSE IF col = "System.AreaPath" THEN <<col, "AreaPath">>
    ELSE IF col = "System.IterationPath" THEN <<col, "IterationPath">>
    ELSE IF col = "Microsoft.VSTS.Common.Priority" THEN <<col, "Priority">>
    ELSE <<col, "Story Points", "StoryPoints">>

RECURSIVE parse_attrs(_, _)
parse_attrs(arows, is_csv) ==
    IF arows = <<>> THEN <<>>
    ELSE LET row == arows[Len(arows)]
             result == parse_attrs(SubSeq(arows, 1, Len(arows) - 1), is_csv)
             id_ == clean(getv(row, AttrNames(is_csv, "ID")))
             field(col) == getv(row, AttrNames(is_csv, col))
         IN IF id_ = <<>> THEN result
            ELSE DictPut(result, id_,
                    ("System.AreaPath" :> clean(field("System.AreaPath")))
                    @@ ("System.IterationPath" :> clean(field("System.IterationPath")))
                    @@ ("Microsoft.VSTS.Common.Priority" :>
                            clean(field("Microsoft.VSTS.Common.Priority")))
                    @@ ("Microsoft.VSTS.Scheduling.StoryPoints" :>
                            norm_sp(field("Microsoft.VSTS.Scheduling.StoryPoints"))))

FinalClean_none(v) == v

\* "Clean one more time to eliminate 'nan'"
FinalClean(v) == IF lower(strip(v)) = NAN THEN <<>> ELSE v

\* a.get(col, "") with a = attrs_map.get(id_, {})
AttrOrEmpty(amap, id_, col) == IF DictHas(amap, id_) THEN DictGet(amap, id_)[col] ELSE <<>>

\* The row the merge loop writes for one entry of titles_map
MergedRow(t, amap) ==
    [h \in {OUT_HEADERS[k] : k \in 1..Len(OUT_HEADERS)} |->
        FinalClean(IF h \in DOMAIN t THEN t[h] ELSE AttrOrEmpty(amap, t["ID"], h))]

Txt_X == <<"X">>
Txt_NaN == <<"N", "a", "N">>
Txt_nanPadded == <<" ", "n", "a", "n", " ">>

TitleRowSamples ==
    { ("ID" :> <<"5">>) @@ ("Title" :> Txt_X) @@ ("Work Item Type" :> T_Bug),
      ("ID" :> <<" ", "6", " ">>) @@ ("Title" :> Txt_NaN) @@ ("Work Item Type" :> NAN),
      ("ID" :> NAN) @@ ("Title" :> <<"Y">>) @@ ("Work Item Type" :> T_Bug),
      ("ID" :> <<"5">>) @@ ("Title" :> <<"Z", " ">>) @@ ("Work Item Type" :> T_Bug),
      ("ID" :> <<"7">>) @@ ("Title" :> Txt_nanPadded) }

AttrRowSamples ==
    { ("ID" :> <<"5">>) @@ ("System.AreaPath" :> <<"A">>)
        @@ ("System.IterationPath" :> <<"I">>)
        @@ ("Microsoft.VSTS.Common.Priority" :> <<"2">>)
        @@ ("Microsoft.VSTS.Scheduling.StoryPoints" :> <<"3", ".", "0">>),
      ("Id" :> <<"6">>) @@ ("AreaPath" :> Txt_nanPadded) @@ ("IterationPath" :> <<"I">>)
        @@ ("Priority" :> Txt_NaN) @@ ("Story Points" :> <<"2", ".", "5", "0">>),
      ("ID" :> <<"7">>) @@ ("System.AreaPath" :> Txt_NaN)
        @@ ("Microsoft.VSTS.Scheduling.StoryPoints" :> <<"-", "n", "a", "n">>),
      ("ID" :> <<"5">>) @@ ("System.AreaPath" :> <<"B">>)
        @@ ("System.IterationPath" :> NAN)
        @@ ("Microsoft.VSTS.Common.Priority" :> <<"1">>)
        @@ ("Microsoft.VSTS.Scheduling.StoryPoints" :> <<"a", "b", "c">>) }

MergeIdle ==
    /\ titles_rows = <<>> /\ attrs_rows = <<>> /\ attrs_is_csv = FALSE
    /\ titles_map = <<>> /\ attrs_map = <<>> /\ out_rows = <<>> /\ mi = 1
    /\ mergePc = "idle"

MergeInit ==
    /\ titles_rows \in SeqsUpTo(TitleRowSamples, MaxMergeRows)
    /\ attrs_rows \in SeqsUpTo(AttrRowSamples, MaxMergeRows)
    /\ attrs_is_csv \in BOOLEAN
    /\ titles_map = <<>>
    /\ attrs_map = <<>>
    /\ out_rows = <<>>
    /\ mi = 1
    /\ mergePc = "start"

\* titles_map = parse_titles(titles); attrs_map = parse_attrs(attrs)
ParseTables ==
    /\ mergePc = "start"
    /\ titles_map' = parse_titles(titles_rows)
    /\ attrs_map' = parse_attrs(attrs_rows, attrs_is_csv)
    /\ mergePc' = "merging"
    /\ UNCHANGED <<titles_rows, attrs_rows, attrs_is_csv, out_rows, mi>>
    /\ UNCHANGED notMerge

\* One pass of "for id_, t in titles_map.items()"
WriteMergedRow ==
    /\ mergePc = "merging"
    /\ mi <= Len(titles_map)
    /\ out_rows' = Append(out_rows, MergedRow(titles_map[mi].val, attrs_map))
    /\ mi' = mi + 1
    /\ UNCHANGED <<titles_rows, attrs_rows, attrs_is_csv, titles_map, attrs_map, mergePc>>
    /\ UNCHANGED notMerge

FinishMerge ==
    /\ mergePc = "merging"
    /\ mi > Len(titles_map)
    /\ mergePc' = "done"
    /\ UNCHANGED <<titles_rows, attrs_rows, attrs_is_csv, titles_map, attrs_map, out_rows, mi>>
    /\ UNCHANGED notMerge

----------------------------------------------------------------------------
(* update_prds.py: the document augmenter *)

\* The body of a document is a list of elements: paragraphs (tag "p") and,
\* last, the section properties Word keeps in the body (tag "sectPr").  An
\* element has an identity, as the script holds paragraphs while it inserts
\* others.  Bold and spacing are left out.  The paragraphs the model draws
\* hold a recognised header exactly or not at all.
HEADERS ==
    <<"1. Customer Problem", "2. Customer Research", "3. Our Solution",
      "4. Product Metrics", "Appendix: Additional Links", "Appendix: Quick prototype">>

ENTERPRISE_SENTENCE ==
    "This capability was requested as feedback from an enterprise-level accounting firm, reflecting needs observed in large multi-entity audit workflows."

COMPETITIVE_SENTENCE ==
    "We are also building this to achieve competitive parity with Wolters Kluwer ProSystem fx Engagement, which offers similar functionality."

ParagraphTexts ==
    {"", "2. Customer Research", "3. Our Solution", ENTERPRISE_SENTENCE,
     COMPETITIVE_SENTENCE, "Body text"}

\* File names, and ('division' in name_lower) or ('consolidation' in name_lower)
DocNames == {"4233645 - Division sets.docx", "4205843 - Notes dialog.docx"}
is_div_or_cons(name) == name \in {"4233645 - Division sets.docx"}

Para(id, text) == [id |-> id, tag |-> "p", text |-> text]

\* _para_text: the text of the w:t descendants (none in a sectPr)
_para_text(elem) == elem.text

FreshId(b) == 1 + Len(b)

PosOf(b, id) == CHOOSE k \in 1..Len(b) : b[k].id = id

\* b with e put in as its k-th element
InsertAt(b, k, e) == SubSeq(b, 1, k - 1) \o <<e>> \o SubSeq(b, k, Len(b))

\* doc.paragraphs: the w:p children of the body, in order
IsParagraph(e) == e.tag = "p"
paragraphs(b) == SelectSeq(b, IsParagraph)

\* paragraph_is_header: the text starts with one of HEADERS
paragraph_is_header(e) == \E k \in 1..Len(HEADERS) : e.text = HEADERS[k]

\* ensure_header_style: a blank paragraph before and after the header
\* unless the sibling there has no text
ensure_header_style(b, id) ==
    LET k == PosOf(b, id)
        b1 == IF k = 1 \/ _para_text(b[k - 1]) # ""
              THEN InsertAt(b, k, Para(FreshId(b), ""))
              ELSE b
        k1 == PosOf(b1, id)
    IN IF k1 = Len(b1) \/ _para_text(b1[k1 + 1]) # ""
       THEN InsertAt(b1, k1 + 1, Para(FreshId(b1), ""))
       ELSE b1

\* for p in doc.paragraphs: if paragraph_is_header(p): ensure_header_style(p)
\* (ps is the list taken before the loop)
RECURSIVE StyleHeaders(_, _)
StyleHeaders(b, ps) ==
    IF ps = <<>> THEN b
    ELSE StyleHeaders(IF paragraph_is_header(Head(ps))
                      THEN ensure_header_style(b, Head(ps).id)
                      ELSE b,
                      Tail(ps))

\* p.text.strip().lower().startswith('2. customer research')
IsResearchHeader(e) == e.text = "2. Customer Research"

\* sentence in window_text, the texts of doc.paragraphs[i+1:i+6]
InWindow(ps, i, sentence) ==
    \E k \in (i + 1)..(i + 5) : k <= Len(ps) /\ ps[k].text = sentence

add_research_sentences_any_file(b, is_div) ==
    LET ps == paragraphs(b) IN
    IF ~\E i \in 1..Len(ps) : IsResearchHeader(ps[i]) THEN b
    ELSE
      LET i == CHOOSE i \in 1..Len(ps) :
                  IsResearchHeader(ps[i]) /\ \A m \in 1..(i - 1) : ~IsResearchHeader(ps[m])
          need_enterprise == ~InWindow(ps, i, ENTERPRISE_SENTENCE)
          need_competitive == ~InWindow(ps, i, COMPETITIVE_SENTENCE)
          k == PosOf(b, ps[i].id)
          b1 == InsertAt(b, k + 1, Para(FreshId(b), ""))
          b2 == IF need_enterprise
                THEN InsertAt(b1, k + 2, Para(FreshId(b1), ENTERPRISE_SENTENCE))
                ELSE b1
          k2 == IF need_enterprise THEN k + 2 ELSE k + 1
      IN IF ~(need_enterprise \/ need_competitive) THEN b
         ELSE IF need_competitive
              THEN InsertAt(b2, k2 + 1, Para(FreshId(b2), COMPETITIVE_SENTENCE))
              ELSE b2

\* add_research_sentences: under the first research header, a blank
\* paragraph and then the sentences the window lacks
add_research_sentences(b, is_div) ==
    LET ps == paragraphs(b) IN
    IF ~\E i \in 1..Len(ps) : IsResearchHeader(ps[i]) THEN b
    ELSE
      LET i == CHOOSE i \in 1..Len(ps) :
                  IsResearchHeader(ps[i]) /\ \A m \in 1..(i - 1) : ~IsResearchHeader(ps[m])
          need_enterprise == ~InWindow(ps, i, ENTERPRISE_SENTENCE)
          need_competitive == is_div /\ ~InWindow(ps, i, COMPETITIVE_SENTENCE)
          k == PosOf(b, ps[i].id)
          b1 == InsertAt(b, k + 1, Para(FreshId(b), ""))
          b2 == IF need_enterprise
                THEN InsertAt(b1, k + 2, Para(FreshId(b1), ENTERPRISE_SENTENCE))
                ELSE b1
          k2 == IF need_enterprise THEN k + 2 ELSE k + 1
      IN IF ~(need_enterprise \/ need_competitive) THEN b
         ELSE IF need_competitive
              THEN InsertAt(b2, k2 + 1, Para(FreshId(b2), COMPETITIVE_SENTENCE))
              ELSE b2

\* The texts of the paragraphs, in order
Texts(b) == [k \in 1..Len(paragraphs(b)) |-> paragraphs(b)[k].text]

\* Document(path): the elements of the saved file, numbered afresh
Reload(b) == [k \in 1..Len(b) |-> [b[k] EXCEPT !.id = k]]

\* The documents drawn: up to MaxParas paragraphs, with or without sectPr
DocBodies ==
    LET texts == SeqsUpTo(ParagraphTexts, MaxParas)
        asParas(t) == [k \in 1..Len(t) |-> Para(k, t[k])]
    IN {asParas(t) : t \in texts}
         \cup {Append(asParas(t), [id |-> Len(t) + 1, tag |-> "sectPr", text |-> ""]) : t \in texts}

UpdateIdle == body = <<>> /\ docName = "" /\ updPc = "idle" /\ after_first = <<>>

UpdateInit ==
    /\ body \in DocBodies
    /\ docName \in DocNames
    /\ updPc = "style1"
    /\ after_first = <<>>

\* The header loop of process_docx
StyleHeadersStep ==
    /\ updPc \in {"style1", "style2"}
    /\ body' = StyleHeaders(body, paragraphs(body))
    /\ updPc' = IF updPc = "style1" THEN "research1" ELSE "research2"
    /\ UNCHANGED <<docName, after_first>>
    /\ UNCHANGED notUpdate

\* add_research_sentences(doc, is_div_or_cons)
AddResearchStep ==
    /\ updPc \in {"research1", "research2"}
    /\ body' = add_research_sentences(body, is_div_or_cons(docName))
    /\ updPc' = IF updPc = "research1" THEN "save1" ELSE "save2"
    /\ UNCHANGED <<docName, after_first>>
    /\ UNCHANGED notUpdate

\* doc.save(path) at the end of the first run; the second run opens the file
SaveFirst ==
    /\ updPc = "save1"
    /\ after_first' = Texts(body)
    /\ body' = Reload(body)
    /\ updPc' = "style2"
    /\ UNCHANGED docName
    /\ UNCHANGED notUpdate

\* doc.save(path) at the end of the second run
SaveSecond ==
    /\ updPc = "save2"
    /\ body' = Reload(body)
    /\ updPc' = "done"
    /\ UNCHANGED <<docName, after_first>>
    /\ UNCHANGED notUpdate

----------------------------------------------------------------------------
(* cleanup_prds.py: the document section remover *)

\* A paragraph has a text and may hold an embedded image.  The texts the
\* model draws, and which of the script's patterns each one matches:
QuickPrototypeTexts == {"Appendix: Quick prototype", "APPENDIX - quick prototype "}
OtherHeaderTexts == {"Appendix: Additional Links", "3. Our Solution"}

CleanParaSamples ==
    {[text |-> t, image |-> FALSE] :
        t \in QuickPrototypeTexts \cup OtherHeaderTexts \cup {"Body text"}}
      \cup {[text |-> "", image |-> TRUE]}

\* should_start_appendix_deletion: the trimmed text matches one of
\* APPENDIX_HEADER_PATTERNS (the whole text, any case, ":" or a dash)
should_start_appendix_deletion(p) == p.text \in QuickPrototypeTexts

\* is_header_paragraph: the trimmed text starts as one of TOP_LEVEL_HEADERS
\* (the last of them is ^appendix, which the quick-prototype heading matches)
is_header_paragraph(p) == p.text \in QuickPrototypeTexts \cup OtherHeaderTexts

\* paragraph_has_image
paragraph_has_image(p) == p.image

\* The inner loop of remove_appendix_and_images started at i: the index at
\* which it stops, one past the last paragraph it removed
RECURSIVE RangeEnd_to_eof(_, _, _)
RangeEnd_to_eof(ps, i, j) == Len(ps) + 1

RangeEnd_nothing(ps, i, j) == j

RECURSIVE RangeEnd(_, _, _)
RangeEnd(ps, i, j) ==
    IF j > Len(ps) THEN j
    ELSE IF j # i /\ is_header_paragraph(ps[j]) THEN j
    ELSE RangeEnd(ps, i, j + 1)

\* A list without its elements i .. j-1
RemoveRange(d, i, j) == SubSeq(d, 1, i - 1) \o SubSeq(d, j, Len(d))

CleanupIdle == doc = <<>> /\ orig = <<>> /\ paras = <<>> /\ ci = 0 /\ cleanPc = "idle"

\* paras = list(doc.paragraphs); i = 0 (the model counts from 1)
CleanupInit ==
    /\ doc \in SeqsUpTo(CleanParaSamples, MaxCleanParas)
    /\ orig = doc
    /\ paras = doc
    /\ ci = 1
    /\ cleanPc = "scan"

\* The outer loop on a paragraph that is not the heading: i += 1
ScanAdvance ==
    /\ cleanPc = "scan"
    /\ ci <= Len(paras)
    /\ ~should_start_appendix_deletion(paras[ci])
    /\ ci' = ci + 1
    /\ UNCHANGED <<doc, orig, paras, cleanPc>>
    /\ UNCHANGED notCleanup

\* The outer loop on the heading: remove it and what follows up to the next
\* top-level header, take the paragraph list again, stay at i
ScanDelete ==
    /\ cleanPc = "scan"
    /\ ci <= Len(paras)
    /\ should_start_appendix_deletion(paras[ci])
    /\ doc' = RemoveRange(doc, ci, RangeEnd(paras, ci, ci))
    /\ paras' = doc'
    /\ UNCHANGED <<orig, ci, cleanPc>>
    /\ UNCHANGED notCleanup

ScanEnd ==
    /\ cleanPc = "scan"
    /\ ci > Len(paras)
    /\ cleanPc' = "images"
    /\ UNCHANGED <<doc, orig, paras, ci>>
    /\ UNCHANGED notCleanup

NoImage(p) == ~paragraph_has_image(p)

\* "Also remove any images elsewhere in the document"
RemoveImages ==
    /\ cleanPc = "images"
    /\ doc' = SelectSeq(doc, NoImage)
    /\ cleanPc' = "removed"
    /\ UNCHANGED <<orig, paras, ci>>
    /\ UNCHANGED notCleanup

----------------------------------------------------------------------------
(* The per-file loops: cleanup_prds.main, update_prds.main and
   embed_prototypes.main *)

Scripts == {"cleanup", "update", "embed"}

\* What handling a file comes to: it is processed, the loop passes it over
\* (not a .docx for cleanup, no epic id for embed), or processing raises (a
\* file python-docx cannot open, pandoc failing under check=True, ...)
FileOutcomes(sc) == IF sc = "update" THEN {"ok", "raises"} ELSE {"ok", "skip", "raises"}

WalkIdle == script = "" /\ files = <<>> /\ fi = 0 /\ handled = <<>> /\ walkPc = "idle"

WalkInit ==
    /\ script \in Scripts
    /\ files \in SeqsUpTo(FileOutcomes(script), MaxFiles)
    /\ fi = 1
    /\ handled = [k \in 1..Len(files) |-> "untouched"]
    /\ walkPc = "walking"

\* process_docx(f) / the body of the rtf loop returns
ProcessFile ==
    /\ walkPc = "walking"
    /\ fi <= Len(files)
    /\ files[fi] = "ok"
    /\ handled' = [handled EXCEPT ![fi] = "processed"]
    /\ fi' = fi + 1
    /\ UNCHANGED <<script, files, walkPc>>
    /\ UNCHANGED notWalk

\* if name.lower().endswith('.docx') fails / "Skip (no epic id)": continue
PassOverFile ==
    /\ walkPc = "walking"
    /\ fi <= Len(files)
    /\ files[fi] = "skip"
    /\ handled' = [handled EXCEPT ![fi] = "skipped"]
    /\ fi' = fi + 1
    /\ UNCHANGED <<script, files, walkPc>>
    /\ UNCHANGED notWalk

\* Processing raises; no loop has a try/except, so the exception leaves main
FileRaises ==
    /\ walkPc = "walking"
    /\ fi <= Len(files)
    /\ files[fi] = "raises"
    /\ handled' = [handled EXCEPT ![fi] = "failed"]
    /\ walkPc' = "crashed"
    /\ UNCHANGED <<script, files, fi>>
    /\ UNCHANGED notWalk

WalkEnds ==
    /\ walkPc = "walking"
    /\ fi > Len(files)
    /\ walkPc' = "done"
    /\ UNCHANGED <<script, files, fi, handled>>
    /\ UNCHANGED notWalk

----------------------------------------------------------------------------
(* embed_prototypes.py and embed_images_and_generate_docx.py: which pages of
   the reference PDF go into a document *)

\* kw in t
Contains(t, kw) ==
    \E i \in 0..(Len(t) - Len(kw)) : SubSeq(t, i + 1, i + Len(kw)) = kw

\* KEYWORDS of embed_prototypes.py, in the order of the dict
KEYWORDS ==
    << [kw |-> <<"d", "i", "v", "i", "s", "i", "o", "n">>, cat |-> "DIVISION"],
       [kw |-> <<"d", "i", "v", "i", "s", "i", "o", "n", " ", "s", "e", "t">>, cat |-> "DIVISION"],
       [kw |-> <<"n", "o", "t", "e">>, cat |-> "NOTES"],
       [kw |-> <<"n", "o", "t", "e", "s">>, cat |-> "NOTES"],
       [kw |-> <<"d", "r", "i", "l", "l">>, cat |-> "DRILL"],
       [kw |-> <<"f", "o", "r", "m", "u", "l", "a">>, cat |-> "DRILL"],
       [kw |-> <<"e", "x", "c", "e", "l">>, cat |-> "DRILL"],
       [kw |-> <<"w", "o", "r", "d">>, cat |-> "DRILL"],
       [kw |-> <<"c", "o", "n", "s", "o", "l", "i", "d", "a", "t", "i", "o", "n">>, cat |-> "CONSOLIDATION"],
       [kw |-> <<"c", "h", "i", "l", "d", " ", "e", "n", "g", "a", "g", "e", "m", "e", "n", "t">>, cat |-> "CONSOLIDATION"],
       [kw |-> <<"f", "i", "n", "a", "l", "i", "z", "e">>, cat |-> "CONSOLIDATION"],
       [kw |-> <<"r", "o", "l", "l", " ", "f", "o", "r", "w", "a", "r", "d">>, cat |-> "CONSOLIDATION"],
       [kw |-> <<"s", "p", "r", "e", "a", "d", "s", "h", "e", "e", "t">>, cat |-> "CONSOLIDATION"] >>

\* categorize_page: the category of the first keyword the lowered text holds
categorize_page(text) ==
    LET t == lower(text)
        hit(k) == Contains(t, KEYWORDS[k].kw)
    IN IF \E k \in 1..Len(KEYWORDS) : hit(k)
       THEN KEYWORDS[CHOOSE k \in 1..Len(KEYWORDS) :
                         hit(k) /\ \A m \in 1..(k - 1) : ~hit(m)].cat
       ELSE "UNKNOWN"

DIVISION_EPICS ==
    { <<"4", "2", "3", "3", "6", "4", "5">>,
      <<"4", "2", "3", "3", "3", "0", "3">>,
      <<"4", "3", "7", "9", "3", "4", "2">>,
      <<"4", "2", "3", "3", "2", "9", "9">>,
      <<"4", "2", "3", "3", "6", "4", "6">>,
      <<"4", "2", "3", "3", "6", "4", "8">>,
      <<"4", "2", "3", "5", "7", "1", "6">> }

NOTES_EPICS ==
    { <<"4", "2", "0", "5", "8", "4", "3">>,
      <<"4", "2", "3", "7", "5", "8", "2">>,
      <<"4", "2", "3", "7", "5", "7", "8">> }

DRILL_EPICS == { <<"4", "2", "0", "4", "1", "1", "3">> }

CONSOLIDATION_EPICS ==
    { <<"4", "2", "3", "7", "5", "4", "6">>,
      <<"4", "2", "3", "3", "3", "3", "0">>,
      <<"4", "2", "0", "6", "5", "9", "2">>,
      <<"4", "2", "3", "3", "3", "2", "7">>,
      <<"4", "2", "3", "3", "3", "1", "0">>,
      <<"4", "3", "7", "9", "3", "6", "3">>,
      <<"4", "4", "4", "2", "2", "6", "9">> }

\* find_epic_id_from_filename: re.match(r"^(\d{7})\s-\s", name), '' if none
find_epic_id_from_filename(name) ==
    IF /\ Len(name) >= 10
       /\ AllDigits(SubSeq(name, 1, 7))
       /\ IsSpace(name[8]) /\ name[9] = "-" /\ IsSpace(name[10])
    THEN SubSeq(name, 1, 7)
    ELSE <<>>

\* The if/elif chain of main over the epic id sets
EpicCategory(epic_id) ==
    IF epic_id \in DIVISION_EPICS THEN "DIVISION"
    ELSE IF epic_id \in NOTES_EPICS THEN "NOTES"
    ELSE IF epic_id \in DRILL_EPICS THEN "DRILL"
    ELSE IF epic_id \in CONSOLIDATION_EPICS THEN "CONSOLIDATION"
    ELSE "UNKNOWN"

\* The page numbers 1..n, and those of them that pass a test, in order
PageNumbers(n) == [i \in 1..n |-> i]

\* cat_to_pages.get(cat, []): the pages categorize_page gives the category,
\* in the order page_categories was filled (page 1 first)
cat_to_pages(pages, cat) ==
    LET InCat(i) == categorize_page(pages[i]) = cat
    IN SelectSeq(PageNumbers(Len(pages)), InCat)

page_idxs_last_page(pages, cat) ==
    IF cat_to_pages(pages, cat) = <<>> /\ Len(pages) > 0
    THEN <<Len(pages)>>
    ELSE cat_to_pages(pages, cat)

\* page_idxs of main: the pages of the category, or page 1 when there is
\* none and the PDF has a page
page_idxs(pages, cat) ==
    IF cat_to_pages(pages, cat) = <<>> /\ Len(pages) > 0
    THEN <<1>>
    ELSE cat_to_pages(pages, cat)

\* CATEGORY_KEYWORDS of embed_images_and_generate_docx.py
CategoryKeys == {"consolidation", "division", "notes", "drill"}

CATEGORY_KEYWORDS(cat) ==
    CASE cat = "consolidation" ->
           { <<"c", "o", "n", "s", "o", "l", "i", "d", "a", "t", "i", "o", "n">>,
             <<"p", "a", "r", "e", "n", "t">>,
             <<"c", "h", "i", "l", "d">>,
             <<"r", "o", "l", "l", " ", "f", "o", "r", "w", "a", "r", "d">>,
             <<"f", "i", "n", "a", "l", "i", "z", "e">>,
             <<"s", "p", "r", "e", "a", "d", "s", "h", "e", "e", "t", " ", "i", "m", "p", "o", "r", "t">> }
      [] cat = "division" ->
           { <<"d", "i", "v", "i", "s", "i", "o", "n">>,
             <<"d", "i", "v", "i", "s", "i", "o", "n", " ", "s", "e", "t">>,
             <<"d", "i", "v", "i", "s", "i", "o", "n", "a", "l">>,
             <<"t", "a", "x", " ", "p", "r", "o", "d", "u", "c", "t", " ", "e", "x", "p", "o", "r", "t">> }
      [] cat = "notes" ->
           { <<"n", "o", "t", "e">>,
             <<"n", "o", "t", "e", "s">>,
             <<"d", "i", "a", "l", "o", "g">>,
             <<"f", "o", "r", "m", "a", "t">> }
      [] cat = "drill" ->
           { <<"d", "r", "i", "l", "l", "-", "d", "o", "w", "n">>,
             <<"d", "r", "i", "l", "l", "d", "o", "w", "n">>,
             <<"f", "o", "r", "m", "u", "l", "a">>,
             <<"e", "x", "c", "e", "l">>,
             <<"w", "o", "r", "d">> }

\* infer_categories_from_filename: the categories with a keyword in the
\* lowered name, or all four when there is none
infer_categories_from_filename(name) ==
    LET cats == {c \in CategoryKeys :
                    \E kw \in CATEGORY_KEYWORDS(c) : Contains(lower(name), kw)}
    IN IF cats = {} THEN CategoryKeys ELSE cats

\* The category filter of pages_for_prd on the text of one page
PageTextMatches(cats, text) ==
    LET t == lower(text)
        any(kws) == \E k \in kws : Contains(t, k)
    IN \/ "consolidation" \in cats /\ any({ <<"c", "o", "n", "s", "o", "l", "i", "d", "a", "t", "i", "o", "n">>, <<"p", "a", "r", "e", "n", "t">>, <<"c", "h", "i", "l", "d">> })
       \/ "division" \in cats /\ Contains(t, <<"d", "i", "v", "i", "s", "i", "o", "n">>)
       \/ "notes" \in cats /\ Contains(t, <<"n", "o", "t", "e">>)
       \/ "drill" \in cats /\ any({ <<"d", "r", "i", "l", "l">>, <<"f", "o", "r", "m", "u", "l", "a">>, <<"e", "x", "c", "e", "l">>, <<"w", "o", "r", "d">> })

\* De-duplicate while preserving order
RECURSIVE Dedupe(_)
Dedupe(s) ==
    IF s = <<>> THEN <<>>
    ELSE LET init == Dedupe(SubSeq(s, 1, Len(s) - 1))
             last == s[Len(s)]
         IN IF \E k \in 1..Len(init) : init[k] = last THEN init ELSE Append(init, last)

\* pages_for_prd, as page numbers (index + 1)
pages_for_prd(prd_filename, pages) ==
    LET cats == infer_categories_from_filename(lower(prd_filename))
        Hit(i) == PageTextMatches(cats, pages[i])
        matched == SelectSeq(PageNumbers(Len(pages)), Hit)
    IN Dedupe(IF matched = <<>> /\ Len(pages) > 0 THEN <<1>> ELSE matched)

\* The texts of the pages and the file names the model draws
PageTextSamples ==
    { <<"D", "i", "v", "i", "s", "i", "o", "n", " ", "S", "e", "t">>,
      <<"M", "e", "e", "t", "i", "n", "g", " ", "N", "o", "t", "e", "s">>,
      <<"P", "a", "r", "e", "n", "t", " ", "a", "n", "d", " ", "c", "h", "i", "l", "d">>,
      <<"E", "x", "c", "e", "l", " ", "f", "o", "r", "m", "u", "l", "a">>,
      <<"D", "i", "v", "i", "s", "i", "o", "n", " ", "n", "o", "t", "e", "s">>,
      <<"S", "u", "m", "m", "a", "r", "y">>,
      <<>> }

PrdNameSamples ==
    { <<"4", "2", "3", "3", "6", "4", "5", " ", "-", " ", "D", "i", "v", "i", "s", "i", "o", "n", " ", "s", "e", "t", "s", ".", "r", "t", "f">>,
      <<"4", "2", "0", "5", "8", "4", "3", " ", "-", " ", "N", "o", "t", "e", "s", " ", "d", "i", "a", "l", "o", "g", ".", "r", "t", "f">>,
      <<"4", "2", "0", "4", "1", "1", "3", " ", "-", " ", "D", "r", "i", "l", "l", ".", "r", "t", "f">>,
      <<"4", "2", "3", "7", "5", "4", "6", " ", "-", " ", "C", "o", "n", "s", "o", "l", "i", "d", "a", "t", "i", "o", "n", ".", "r", "t", "f">>,
      <<"9", "9", "9", "9", "9", "9", "9", " ", "-", " ", "M", "i", "s", "c", ".", "r", "t", "f">>,
      <<"r", "e", "a", "d", "m", "e", ".", "r", "t", "f">> }

Matchers == {"embed_prototypes", "embed_images_and_generate_docx"}

MatchIdle ==
    /\ pdf_pages = <<>> /\ prd_name = <<>> /\ matcher = "" /\ selected = <<>>
    /\ matchPc = "idle"

MatchInit ==
    /\ pdf_pages \in SeqsUpTo(PageTextSamples, MaxPages)
    /\ prd_name \in PrdNameSamples
    /\ matcher \in Matchers
    /\ selected = <<>>
    /\ matchPc = "start"

\* embed_prototypes.main on a file with no epic id: "Skip (no epic id)"
SkipNoEpicId ==
    /\ matchPc = "start"
    /\ matcher = "embed_prototypes"
    /\ find_epic_id_from_filename(prd_name) = <<>>
    /\ matchPc' = "skipped"
    /\ UNCHANGED <<pdf_pages, prd_name, matcher, selected>>
    /\ UNCHANGED notMatch

\* embed_prototypes.main on a file with an epic id
SelectByEpic ==
    /\ matchPc = "start"
    /\ matcher = "embed_prototypes"
    /\ find_epic_id_from_filename(prd_name) # <<>>
    /\ selected' = page_idxs(pdf_pages, EpicCategory(find_epic_id_from_filename(prd_name)))
    /\ matchPc' = "done"
    /\ UNCHANGED <<pdf_pages, prd_name, matcher>>
    /\ UNCHANGED notMatch

\* embed_images_and_generate_docx.build_docx_from_rtf: matched_pages
SelectByFilename ==
    /\ matchPc = "start"
    /\ matcher = "embed_images_and_generate_docx"
    /\ selected' = pages_for_prd(prd_name, pdf_pages)
    /\ matchPc' = "done"
    /\ UNCHANGED <<pdf_pages, prd_name, matcher>>
    /\ UNCHANGED notMatch

----------------------------------------------------------------------------
(* cleanup_prds.py: scrub_phrases_in_paragraph and the loop of process_docx
   that calls it on every paragraph left in the document *)

\* REMOVE_PHRASES, each \bphrase\b matched in any letter case
REMOVE_PHRASES ==
    << <<"f", "r", "o", "m", " ", "t", "h", "e", " ", "e", "p", "i", "c">>,
       <<"f", "r", "o", "m", " ", "t", "h", "e", " ", "f", "e", "a", "t", "u", "r", "e">> >>

\* \w of the regular expressions
IsWordChar(c) ==
    \/ c \in Digits \/ c = "_"
    \/ \E k \in 1..26 : c = UpperAlpha[k] \/ c = LowerAlpha[k]

\* The pattern \bphrase\b (IGNORECASE) matches in t at position i
PhraseAt(t, i, phrase) ==
    /\ i + Len(phrase) - 1 <= Len(t)
    /\ lower(SubSeq(t, i, i + Len(phrase) - 1)) = phrase
    /\ (i = 1 \/ ~IsWordChar(t[i - 1]))
    /\ (i + Len(phrase) > Len(t) \/ ~IsWordChar(t[i + Len(phrase)]))

\* rx.sub("", t): the matches found from left to right, without overlap,
\* are taken out; what is left of t from position i on
RECURSIVE SubPhrase(_, _, _)
SubPhrase(t, i, phrase) ==
    IF i > Len(t) THEN <<>>
    ELSE IF PhraseAt(t, i, phrase) THEN SubPhrase(t, i + Len(phrase), phrase)
    ELSE <<t[i]>> \o SubPhrase(t, i + 1, phrase)

\* One past the end of the run of whitespace that starts at i
RECURSIVE SpaceRunEnd(_, _)
SpaceRunEnd(t, i) ==
    IF i <= Len(t) /\ IsSpace(t[i]) THEN SpaceRunEnd(t, i + 1) ELSE i

\* re.sub(r"\s{2,}", " ", t) from position i on
RECURSIVE CollapseSpaces(_, _)
CollapseSpaces(t, i) ==
    IF i > Len(t) THEN <<>>
    ELSE IF SpaceRunEnd(t, i) >= i + 2
         THEN <<" ">> \o CollapseSpaces(t, SpaceRunEnd(t, i))
         ELSE <<t[i]>> \o CollapseSpaces(t, i + 1)

Punctuation == {".", ",", ";", ":"}

\* re.sub(r"\s+([.,;:])", r"\1", t) from position i on
RECURSIVE DropSpaceBeforePunctuation(_, _)
DropSpaceBeforePunctuation(t, i) ==
    IF i > Len(t) THEN <<>>
    ELSE LET e == SpaceRunEnd(t, i) IN
         IF e > i /\ e <= Len(t) /\ t[e] \in Punctuation
         THEN DropSpaceBeforePunctuation(t, e)
         ELSE <<t[i]>> \o DropSpaceBeforePunctuation(t, i + 1)

scrub_phrases_keep_spaces(text) ==
    IF text = <<>> THEN text
    ELSE SubPhrase(SubPhrase(text, 1, REMOVE_PHRASES[1]), 1, REMOVE_PHRASES[2])

\* scrub_phrases_in_paragraph: the text the paragraph has afterwards
scrub_phrases_in_paragraph(text) ==
    IF text = <<>> THEN text
    ELSE LET removed == SubPhrase(SubPhrase(text, 1, REMOVE_PHRASES[1]), 1, REMOVE_PHRASES[2])
         IN DropSpaceBeforePunctuation(CollapseSpaces(removed, 1), 1)

\* The pieces paragraph texts are put together from
ScrubFragments ==
    { <<"f", "r", "o", "m", " ", "t", "h", "e", " ">>,
      <<"f", "r", "o", "m", " ", "t", "h", "e", " ", "e", "p", "i", "c">>,
      <<" ", "e", "p", "i", "c">>,
      <<"F", "r", "o", "m", " ", "T", "h", "e", " ", "F", "e", "a", "t", "u", "r", "e">>,
      <<" ", " ", ",">> }

RECURSIVE ScrubTexts(_)
ScrubTexts(n) ==
    IF n = 0 THEN {<<>>}
    ELSE ScrubTexts(n - 1) \cup {t \o f : t \in ScrubTexts(n - 1), f \in ScrubFragments}

ScrubIdle == scrub_in = <<>> /\ scrub_paras = <<>> /\ si = 0 /\ scrubPc = "idle"

\* for p in list(doc.paragraphs), on the paragraphs the removal left
ScrubInit ==
    /\ scrub_in \in SeqsUpTo(ScrubTexts(MaxScrubParts), MaxScrubParas)
    /\ scrub_paras = scrub_in
    /\ si = 1
    /\ scrubPc = "scrub"

\* scrub_phrases_in_paragraph(p) on the next paragraph
ScrubParagraph ==
    /\ scrubPc = "scrub"
    /\ si <= Len(scrub_paras)
    /\ scrub_paras' = [scrub_paras EXCEPT ![si] = scrub_phrases_in_paragraph(scrub_paras[si])]
    /\ si' = si + 1
    /\ UNCHANGED <<scrub_in, scrubPc>>
    /\ UNCHANGED notScrub

\* doc.save(path)
ScrubSave ==
    /\ scrubPc = "scrub"
    /\ si > Len(scrub_paras)
    /\ scrubPc' = "saved"
    /\ UNCHANGED <<scrub_in, scrub_paras, si>>
    /\ UNCHANGED notScrub

----------------------------------------------------------------------------
(* Specifications: one per script, the other scripts idle *)

AllIdle(skip) ==
    /\ (IF skip = "priority" THEN TRUE ELSE PriorityIdle)
    /\ (IF skip = "report" THEN TRUE ELSE ReportIdle)
    /\ (IF skip = "merge" THEN TRUE ELSE MergeIdle)
    /\ (IF skip = "update" THEN TRUE ELSE UpdateIdle)
    /\ (IF skip = "cleanup" THEN TRUE ELSE CleanupIdle)
    /\ (IF skip = "walk" THEN TRUE ELSE WalkIdle)
    /\ (IF skip = "match" THEN TRUE ELSE MatchIdle)
    /\ (IF skip = "scrub" THEN TRUE ELSE ScrubIdle)

InitPriority == PriorityInit /\ AllIdle("priority")

NextPriority == CallDerivePriority

SpecPriority == InitPriority /\ [][NextPriority]_vars

InitReport == ReportInit /\ AllIdle("report")

NextReport == SkipLine \/ ParseRaises \/ AppendRow \/ WriteReports

SpecReport == InitReport /\ [][NextReport]_vars

InitMerge == MergeInit /\ AllIdle("merge")

NextMerge == ParseTables \/ WriteMergedRow \/ FinishMerge

SpecMerge == InitMerge /\ [][NextMerge]_vars

InitUpdate == UpdateInit /\ AllIdle("update")

NextUpdate == StyleHeadersStep \/ AddResearchStep \/ SaveFirst \/ SaveSecond

SpecUpdate == InitUpdate /\ [][NextUpdate]_vars

InitCleanup == CleanupInit /\ AllIdle("cleanup")

NextCleanup == ScanAdvance \/ ScanDelete \/ ScanEnd \/ RemoveImages

SpecCleanup == InitCleanup /\ [][NextCleanup]_vars

\* The script runs on: a pass of the loop that can be taken is taken
SpecCleanupFair == InitCleanup /\ [][NextCleanup]_vars /\ WF_vars(NextCleanup)

InitWalk == WalkInit /\ AllIdle("walk")

NextWalk == ProcessFile \/ PassOverFile \/ FileRaises \/ WalkEnds

SpecWalk == InitWalk /\ [][NextWalk]_vars

InitMatch == MatchInit /\ AllIdle("match")

NextMatch == SkipNoEpicId \/ SelectByEpic \/ SelectByFilename

SpecMatch == InitMatch /\ [][NextMatch]_vars

InitScrub == ScrubInit /\ AllIdle("scrub")

NextScrub == ScrubParagraph \/ ScrubSave

SpecScrub == InitScrub /\ [][NextScrub]_vars

----------
(* Claims about derive_priority (SpecPriority) *)

HasTag(t) == \E k \in 1..Len(t) : TagAt(t, k)

\* C1: the derived priority is always one of 1, 2, 3, 4, and when the title
\* holds a [P1]..[P4] tag the result is the digit of the (leftmost) tag,
\* whatever the raw priority field says.
C1_PriorityInRangeTagWins ==
    derived # 0 =>
        /\ derived \in {1, 2, 3, 4}
        /\ HasTag(title) =>
              \E k \in 1..Len(title) :
                  /\ TagAt(title, k)
                  /\ \A m \in 1..(k - 1) : ~TagAt(title, m)
                  /\ derived = DigitVal(title[k + 2])

\* A [P2] tag with raw priority 4 has yielded 2
C1_Witness ==
    /\ derived = 2
    /\ title = <<"[", "P", "2", "]">>
    /\ raw_priority = <<"4">>

\* The raw values of the model that read as an integer 1 to 4, with the
\* integer each stands for
RawAsNumber ==
    { <<<<"1">>, 1>>, <<<<"2">>, 2>>, <<<<"3">>, 3>>, <<<<"4">>, 4>>,
      <<<<" ", "2">>, 2>>, <<<<"0", "2">>, 2>>, <<<<"+", "4">>, 4>> }

----------------------------------------------------------------------------
(* Claims about the report builder (SpecReport) *)

\* The line being read starts with ID: and parse_line cannot read it
CurrentLineMalformed ==
    /\ ln <= Len(lines)
    /\ StartsWithID(lines[ln])
    /\ (IdStart(lines[ln]) = 0 \/ ~FieldsFound(lines[ln]))

\* C3: a line that starts with ID: but is malformed is skipped and the rest
\* of the input is still processed and written; it never aborts the run.
C3_MalformedLineNeverAborts ==
    CurrentLineMalformed => reportPc # "crashed"

\* The line being read has every field in place and a Story Points value
\* that is not a number
CurrentLineBadStoryPoints ==
    /\ ln <= Len(lines)
    /\ StartsWithID(lines[ln])
    /\ IdStart(lines[ln]) # 0
    /\ FieldsFound(lines[ln])
    /\ ~StoryPointsConvertible(lines[ln])

\* C4: an unreadable Story Points field gives 0 (or the record is skipped),
\* the run goes on, and every story-point value written is a number >= 0.
C4_StoryPointsDefaultZero ==
    /\ CurrentLineBadStoryPoints => reportPc # "crashed"
    /\ reportPc = "done" =>
          \A k \in 1..Len(master) :
              /\ master[k].StoryPoints.kind = "num"
              /\ master[k].StoryPoints.tenths >= 0

\* Story points of the rows that satisfy a test, summed from the rows read
SumWhere(Test(_)) == SumSeq([k \in 1..Len(rows) |->
                               IF Test(rows[k]) THEN rows[k].StoryPoints.tenths ELSE 0])

\* C5: in the pivot summary the grand total equals the sum of the category
\* totals; in every row (the grand total too) P1/P2 + P3/P4 = total; and a
\* P1/P2 subtotal is the sum over exactly the items of priority 1 or 2.
C5_PivotTotals ==
    reportPc = "done" =>
        LET n == Len(CategoryNames)
            grand == pivot_rows[n + 1]
        IN /\ Len(pivot_rows) = n + 1
           /\ grand.TotalSP = SumSeq([k \in 1..n |-> pivot_rows[k].TotalSP])
           /\ \A k \in 1..(n + 1) :
                  pivot_rows[k].P12SP + pivot_rows[k].P34SP = pivot_rows[k].TotalSP
           /\ \A k \in 1..n :
                  LET InCat12(r) == r.Category = CategoryNames[k] /\ r.Priority \in {1, 2}
                      InCat34(r) == r.Category = CategoryNames[k] /\ r.Priority \in {3, 4}
                  IN /\ pivot_rows[k].P12SP = SumWhere(InCat12)
                     /\ pivot_rows[k].P34SP = SumWhere(InCat34)
           /\ LET Any12(r) == r.Priority \in {1, 2}
              IN grand.P12SP = SumWhere(Any12)

\* A category with story points in both priority groups has been summarised
C5_Witness ==
    /\ reportPc = "done"
    /\ \E k \in 1..Len(CategoryNames) :
           /\ pivot_rows[k].P12SP > 0
           /\ pivot_rows[k].P34SP > 0
           /\ pivot_rows[Len(CategoryNames) + 1].TotalSP = pivot_rows[k].TotalSP

----------------------------------------------------------------------------
(* Claims about the ADO CSV merger (SpecMerge) *)

\* The identifiers of the titles table and of the attributes table
TitleIds == {clean(Get(titles_rows[k], "ID")) : k \in 1..Len(titles_rows)} \ {<<>>}
AttrIds ==
    {clean(getv(attrs_rows[k], AttrNames(attrs_is_csv, "ID"))) : k \in 1..Len(attrs_rows)}
        \ {<<>>}

\* The last row of the titles table with an identifier
LastTitleRow(id) ==
    titles_rows[CHOOSE k \in 1..Len(titles_rows) :
        /\ clean(Get(titles_rows[k], "ID")) = id
        /\ \A m \in (k + 1)..Len(titles_rows) : clean(Get(titles_rows[m], "ID")) # id]

AttrColumns ==
    {"System.AreaPath", "System.IterationPath", "Microsoft.VSTS.Common.Priority",
     "Microsoft.VSTS.Scheduling.StoryPoints"}

IsNanText(v) == v # None /\ lower(strip(v)) = NAN

\* The last row of the attributes table with an identifier
LastAttrRow(id) ==
    attrs_rows[CHOOSE k \in 1..Len(attrs_rows) :
        /\ clean(getv(attrs_rows[k], AttrNames(attrs_is_csv, "ID"))) = id
        /\ \A m \in (k + 1)..Len(attrs_rows) :
              clean(getv(attrs_rows[m], AttrNames(attrs_is_csv, "ID"))) # id]

\* C7: no field of any output row is "nan" (any case, trimmed), and a "nan"
\* in a title or attribute column of the input is written as "".
C7_NoNanInOutput ==
    /\ \A k \in 1..Len(out_rows) :
          \A h \in DOMAIN out_rows[k] : lower(strip(out_rows[k][h])) # NAN
    /\ \A k \in 1..Len(out_rows) :
          LET id == out_rows[k]["ID"] IN
          /\ \A h \in {"Title", "Work Item Type"} :
                IsNanText(Get(LastTitleRow(id), h)) => out_rows[k][h] = <<>>
          /\ id \in AttrIds =>
                \A c \in AttrColumns :
                    IsNanText(getv(LastAttrRow(id), AttrNames(attrs_is_csv, c)))
                        => out_rows[k][c] = <<>>

\* A story-point value that float() reads as not-a-number, and a title of
\* "NaN", have been written as ""
C7_Witness ==
    /\ mergePc = "done"
    /\ \E k \in 1..Len(out_rows) :
          /\ DictHas(attrs_map, out_rows[k]["ID"])
          /\ DictGet(attrs_map, out_rows[k]["ID"])["Microsoft.VSTS.Scheduling.StoryPoints"] = NAN
          /\ out_rows[k]["Microsoft.VSTS.Scheduling.StoryPoints"] = <<>>
    /\ \E k \in 1..Len(out_rows) :
          /\ Get(LastTitleRow(out_rows[k]["ID"]), "Title") = Txt_NaN
          /\ out_rows[k]["Title"] = <<>>

----------------------------------------------------------------------------
(* Claims about the document augmenter (SpecUpdate) *)

\* C8: a second run of process_docx on the document the first run saved
\* leaves its paragraph sequence as it was: no sentence is inserted again
\* and no blank paragraph is added.
C8_SecondRunChangesNothing ==
    updPc = "done" => Texts(body) = after_first

----------------------------------------------------------------------------
(* Claims about the document section remover (SpecCleanup) *)

\* What the claim says is left of a document: a quick-prototype heading and
\* what follows it up to the next top-level header go, the rest stays
RECURSIVE KeptOutsideRanges(_, _)
KeptOutsideRanges(d, inRange) ==
    IF d = <<>> THEN <<>>
    ELSE IF Head(d).text \in QuickPrototypeTexts THEN KeptOutsideRanges(Tail(d), TRUE)
    ELSE IF inRange /\ Head(d).text \notin OtherHeaderTexts
         THEN KeptOutsideRanges(Tail(d), TRUE)
    ELSE <<Head(d)>> \o KeptOutsideRanges(Tail(d), FALSE)

----------------------------------------------------------------------------
(* Claims about the per-file loops (SpecWalk) *)

\* C10: a failure while processing one file aborts only that file: every
\* later file is still processed or deliberately skipped.
C10_FailureAbortsOnlyThatFile ==
    walkPc \in {"done", "crashed"} =>
        \A k \in 1..Len(files) :
            files[k] # "raises" => handled[k] \in {"processed", "skipped"}

----------------------------------------------------------------------------
(* Claims about what the report builder keeps and how it orders it (SpecReport) *)

\* The input lines parse_line turns into a record
ParsedLines ==
    {k \in 1..Len(lines) : StartsWithID(lines[k]) /\ parse_line(lines[k]).status = "ok"}

\* The categories whose id set holds a parent id
OwningCategories(parent_id) ==
    {c \in {CategoryNames[k] : k \in 1..Len(CategoryNames)} : parent_id \in CATEGORIES(c)}

\* The work-item identifiers written in a list of rows
IdsOf(s) == {s[k].WorkItemID : k \in 1..Len(s)}

\* The parsed lines whose parent belongs to a category
LinesOfCategory(cat) ==
    {k \in ParsedLines : parse_line(lines[k]).Parent \in CATEGORIES(cat)}

\* The identifiers of the parsed lines whose parent is in some category set
CategorizedIds ==
    {parse_line(lines[k]).ID : k \in {j \in ParsedLines :
                                   OwningCategories(parse_line(lines[j]).Parent) # {}}}

\* C11: a parsed item gets a category exactly when its parent id is in one of
\* the category id sets, and then the category owning that set; an item whose
\* parent is in no set is in no per-category file, not in master.csv, and
\* adds nothing to any count or story-point total of the pivot summary.
C11_UncategorizedExcluded ==
    reportPc = "done" =>
        /\ \A k \in ParsedLines :
               LET rec == parse_line(lines[k])
                   own == OwningCategories(rec.Parent)
               IN /\ (categorize(rec.Parent) # "None") <=> (own # {})
                  /\ own # {} =>
                         /\ categorize(rec.Parent) \in own
                         /\ \E j \in 1..Len(master) :
                                /\ master[j].WorkItemID = rec.ID
                                /\ master[j].Category \in own
                  /\ (own = {} /\ rec.ID \notin CategorizedIds) =>
                         /\ rec.ID \notin IdsOf(master)
                         /\ \A c \in DOMAIN by_category : rec.ID \notin IdsOf(by_category[c])
        /\ \A c \in 1..Len(CategoryNames) :
               /\ pivot_rows[c].ItemCount = Cardinality(LinesOfCategory(CategoryNames[c]))
               /\ pivot_rows[c].TotalSP =
                      SumSeq([k \in 1..Len(lines) |->
                                 IF k \in LinesOfCategory(CategoryNames[c])
                                 THEN StoryPointsOrZero(parse_line(lines[k]).StoryPoints).tenths
                                 ELSE 0])
        /\ Len(master) = Cardinality({k \in ParsedLines :
                                         OwningCategories(parse_line(lines[k]).Parent) # {}})

\* The reports were written from an input with one item in a category and
\* one item, with story points, whose parent is in no category set
C11_Witness ==
    /\ reportPc = "done"
    /\ Len(master) = 1
    /\ \E k \in ParsedLines :
           /\ OwningCategories(parse_line(lines[k]).Parent) = {}
           /\ parse_line(lines[k]).StoryPoints.tenths > 0

\* The rows read carry pairwise different identifiers
UniqueIds == \A i, j \in 1..Len(rows) : rows[i].WorkItemID = rows[j].WorkItemID => i = j

\* How many rows of a list carry an identifier
RowsWithId(s, id) == Cardinality({k \in 1..Len(s) : s[k].WorkItemID = id})

\* C12: when the identifiers are unique, every categorized item is in exactly
\* one row of master.csv, in exactly one row of the file of its category and
\* in no other category file; the item count of the grand-total row is the
\* number of rows of master.csv.
C12_NoItemWrittenTwice ==
    reportPc = "done" =>
        /\ pivot_rows[Len(CategoryNames) + 1].ItemCount = Len(master)
        /\ UniqueIds =>
               \A k \in 1..Len(rows) :
                   /\ RowsWithId(master, rows[k].WorkItemID) = 1
                   /\ rows[k].Category \in DOMAIN by_category
                   /\ \A c \in DOMAIN by_category :
                          RowsWithId(by_category[c], rows[k].WorkItemID) =
                              IF c = rows[k].Category THEN 1 ELSE 0

\* Two items with different identifiers, one in each category, were written
C12_Witness ==
    /\ reportPc = "done"
    /\ UniqueIds
    /\ Len(master) = 2
    /\ Cardinality(DOMAIN by_category) = 2

\* 0 for a row of priority 1 or 2, 1 for a row of priority 3 or 4
GroupRank(r) == IF r.Priority \in {1, 2} THEN 0 ELSE 1

\* A list of rows has P1/P2 before P3/P4 and ascending identifiers inside
\* each of the two groups
GroupThenIdOrder(s) ==
    \A i, j \in 1..Len(s) :
        i < j => \/ GroupRank(s[i]) < GroupRank(s[j])
                 \/ /\ GroupRank(s[i]) = GroupRank(s[j])
                    /\ s[i].WorkItemID <= s[j].WorkItemID

C16_PriorityGroupExhaustive ==
    /\ \A p \in 0..5 :
           /\ priority_group(p) \in {"P1/P2", "P3/P4"}
           /\ (priority_group(p) = "P1/P2") <=> (p \in {1, 2})
    /\ \A k \in 1..Len(rows) :
           /\ rows[k].PriorityGroup \in {"P1/P2", "P3/P4"}
           /\ (rows[k].PriorityGroup = "P1/P2") <=> (rows[k].Priority \in {1, 2})
    /\ \A k \in 1..Len(master) :
           (master[k].PriorityGroup = "P1/P2") <=> (master[k].Priority \in {1, 2})

\* Rows of both groups were written, one of priority 2 and one of priority 4
C16_Witness ==
    /\ reportPc = "done"
    /\ \E i, j \in 1..Len(master) :
           /\ master[i].Priority = 2 /\ master[i].PriorityGroup = "P1/P2"
           /\ master[j].Priority = 4 /\ master[j].PriorityGroup = "P3/P4"

----------------------------------------------------------------------------
(* Claims about the blank paragraphs and the research sentences (SpecUpdate) *)

\* The paragraph at position k of a paragraph list is blank
BlankAt(ps, k) == k \in 1..Len(ps) /\ ps[k].text = ""

\* C14: once a run of the augmenter has processed the document, every header
\* paragraph has a blank paragraph directly before it and directly after it,
\* and no second blank paragraph next to that one.
C14_OneBlankAroundHeaders ==
    updPc = "save1" =>
        LET ps == paragraphs(body) IN
        \A k \in 1..Len(ps) :
            paragraph_is_header(ps[k]) =>
                /\ BlankAt(ps, k - 1) /\ ~BlankAt(ps, k - 2)
                /\ BlankAt(ps, k + 1) /\ ~BlankAt(ps, k + 2)

\* The position of the first research header among the paragraphs, or 0
FirstResearchHeader(ps) ==
    IF \E i \in 1..Len(ps) : IsResearchHeader(ps[i])
    THEN CHOOSE i \in 1..Len(ps) :
             IsResearchHeader(ps[i]) /\ \A m \in 1..(i - 1) : ~IsResearchHeader(ps[m])
    ELSE 0

\* A text is among the (up to) five paragraph texts after position i
InNextFive(ts, i, text) == \E k \in 1..5 : i + k <= Len(ts) /\ ts[i + k] = text

\* How often a text occurs in a list of texts
Occurrences(ts, text) == Cardinality({k \in 1..Len(ts) : ts[k] = text})

\* The paragraph texts add_research_sentences is to leave, told from the
\* texts ts it finds and from whether the file is a division/consolidation one
ExpectedAfterResearch(ts, i, div) ==
    LET addE == ~InNextFive(ts, i, ENTERPRISE_SENTENCE)
        addC == div /\ ~InNextFive(ts, i, COMPETITIVE_SENTENCE)
    IN IF ~(addE \/ addC) THEN ts
       ELSE SubSeq(ts, 1, i) \o <<"">>
               \o (IF addE THEN <<ENTERPRISE_SENTENCE>> ELSE <<>>)
               \o (IF addC THEN <<COMPETITIVE_SENTENCE>> ELSE <<>>)
               \o SubSeq(ts, i + 1, Len(ts))

----------------------------------------------------------------------------
(* Claims about the page matcher (SpecMatch) *)

\* The pages whose category matches the category of the document: by epic id
\* for embed_prototypes, by file-name keywords for pages_for_prd
MatchingPages ==
    IF matcher = "embed_prototypes"
    THEN {i \in 1..Len(pdf_pages) :
             categorize_page(pdf_pages[i]) =
                 EpicCategory(find_epic_id_from_filename(prd_name))}
    ELSE {i \in 1..Len(pdf_pages) :
             PageTextMatches(infer_categories_from_filename(prd_name), pdf_pages[i])}

----------------------------------------------------------------------------
(* Claims about the phrase scrubbing (SpecScrub) *)

\* A text holds a phrase somewhere, in any letter case
HoldsPhrase(t, phrase) == Contains(lower(t), phrase)

\* A text has two whitespace characters in a row, or whitespace directly
\* before one of . , ; :
HasStraySpace(t) ==
    \E k \in 1..(Len(t) - 1) :
        IsSpace(t[k]) /\ (IsSpace(t[k + 1]) \/ t[k + 1] \in Punctuation)

\* C18: when the scrub loop is through, no paragraph text holds "from the
\* epic" or "from the feature" in any letter case, and no paragraph text has
\* two whitespace characters in a row or whitespace directly before . , ; :
C18_PhrasesScrubbed ==
    scrubPc = "saved" =>
        \A k \in 1..Len(scrub_paras) :
            /\ \A n \in 1..Len(REMOVE_PHRASES) : ~HoldsPhrase(scrub_paras[k], REMOVE_PHRASES[n])
            /\ ~HasStraySpace(scrub_paras[k])

----------------------------------------------------------------------------
(* Claims about the end of the scan loop (SpecCleanupFair) *)

\* The paragraphs the scan loop has still to look at
ScanLeft == Len(paras) + 1 - ci

\* C19: the scan loop of remove_appendix_and_images ends on every document:
\* each pass either moves the index on or removes at least the heading it
\* stands on, so what is left to scan shrinks with every pass and the loop
\* is left in the end.
C19_ScanLoopTerminates ==
    /\ [][(cleanPc = "scan" /\ cleanPc' = "scan") =>
             /\ ScanLeft' < ScanLeft
             /\ (ci' = ci + 1 /\ paras' = paras) \/ (ci' = ci /\ Len(paras') < Len(paras))
         ]_vars
    /\ <>(cleanPc # "scan")

\* The loop has ended on a document whose last two paragraphs were both
\* quick-prototype headings, and has removed them
C19_Witness ==
    /\ cleanPc = "images"
    /\ Len(orig) >= 2
    /\ should_start_appendix_deletion(orig[Len(orig)])
    /\ should_start_appendix_deletion(orig[Len(orig) - 1])
    /\ \A k \in 1..Len(doc) : ~should_start_appendix_deletion(doc[k])

====
